---- MODULE Spec2Model ----
(***************************************************************************)
(* ContextCompactor (src/context_compactor/core/compactor.py).             *)
(*                                                                         *)
(* One ContextCompactor instance, driven by several asyncio tasks that     *)
(* call maybe_compact on it, interleaved with reset_stats and get_stats.   *)
(* The tasks are anonymous: the suspended calls are a bag of frames.       *)
(* Code between two awaits runs without interruption on the event loop, so *)
(* a call of maybe_compact is two steps: from the call to the await of     *)
(* strategy.compact (lines 78-101), and from the resumption to the return  *)
(* (lines 103-116).  The token counter and the strategy are collaborators  *)
(* handed in at construction: what they return, and whether they raise, is *)
(* chosen by the environment.                                              *)
(*                                                                         *)
(* trigger_at_percent is a float in the source.  Here it is held in        *)
(* hundredths (80 stands for 0.8) and products with it are exact; int() is *)
(* Python's truncation toward zero.                                        *)
(***************************************************************************)
EXTENDS Integers, Sequences, FiniteSets, Bags, TLC

\* ---------------------------------------------------------------- bounds
NumTasks == 2        \* calls of maybe_compact that may be suspended at once
MaxCalls == 2        \* calls of maybe_compact started in one behaviour
MaxCount == 2        \* largest token count the counter reports for a small window

\* ----------------------------------------------------- construction inputs
\* <<max_context_tokens, trigger_at_percent in hundredths, verbose>>.  The
\* dataclass stores whatever it is given, so values outside the documented
\* ranges are constructible too.
Configurations ==
    { <<1000, 80, FALSE>>, <<2, 50, FALSE>>, <<2, 50, TRUE>>,
      <<1, 80, FALSE>>, <<1, 80, TRUE>>, <<3, 0, TRUE>>,
      <<-3, 50, FALSE>>, <<1, 150, FALSE>> }

\* Message lists are opaque to the compactor: a list is its reference.
MessageLists == {"m1", "m2"}
NoList == "NoList"

\* The messages in each list when the lists are handed to the compactor.
InitialContents ==
    [l \in MessageLists |->
        IF l = "m1" THEN << "user1", "assistant1", "user2" >>
                    ELSE << "summary", "user2" >>]

\* What asyncio.get_event_loop() finds in the thread that calls the
\* processor: a current loop that is not running, a current loop that is
\* running, or no current loop.
LoopStates == {"idle", "running", "none"}

CounterFailure == -1
NoCount == -2

VARIABLES
    max_context_tokens,     \* field, line 53
    trigger_at_percent,     \* field, line 56 (hundredths)
    verbose,                \* field, line 57
    compactions_performed,  \* field, line 60
    tokens_saved,           \* field, line 61
    calls,                  \* bag of the frames of the suspended maybe_compact calls
    outcome,                \* how a maybe_compact call ended, if one ended in the last step
    stats_returned,         \* what get_stats returned, if it was the last step
    calls_started,          \* number of maybe_compact calls begun
    calls_compacted,        \* number of maybe_compact calls that returned a compaction
    since_reset,            \* "never": no reset_stats yet; "just": nothing but
                            \* get_stats has run since reset_stats; "resumed":
                            \* since reset_stats suspended calls have resumed
                            \* but no call has begun; else "earlier"
    max_suspended,          \* most calls ever suspended at once
    contents,               \* the messages held by each message list
    updates_since_reset,    \* statistics updates run since the last reset_stats
    saved_since_reset       \* sum of count_before - count_after over the
                            \* compactions completed since the last reset_stats

vars == << max_context_tokens, trigger_at_percent, verbose,
           compactions_performed, tokens_saved, calls, outcome,
           stats_returned, calls_started, calls_compacted, since_reset,
           max_suspended, contents, updates_since_reset,
           saved_since_reset >>

history == << updates_since_reset, saved_since_reset >>

config == << max_context_tokens, trigger_at_percent, verbose >>

\* ----------------------------------------------------------------- helpers
\* int(num / den) for den > 0: Python's int() truncates toward zero.
IntTrunc(num, den) ==
    IF num >= 0 THEN num \div den ELSE -((-num) \div den)

\* Outcomes of token_counter.count_messages: a count, or an exception.  The
\* counts are sampled at the window's scale: around 800 for the window of
\* 1000 tokens, from 0 up for the small windows.
TokenCounts ==
    IF max_context_tokens >= 1000
    THEN (max_context_tokens - 201)..(max_context_tokens - 201 + MaxCount)
    ELSE 0..MaxCount

CountResults == TokenCounts \cup {CounterFailure}

\* The frame of maybe_compact before its first statement.
NewFrame ==
    [ pc |-> "called", messages |-> NoList, current_tokens |-> NoCount,
      invocations |-> << >>, compacted |-> NoList, new_tokens |-> NoCount,
      result |-> NoList, error |-> "none" ]

NoOutcome == [NewFrame EXCEPT !.pc = "none"]

NoStats == [ compactions_performed |-> -1, tokens_saved |-> 0,
             max_context_tokens |-> 0, trigger_threshold |-> 0 ]

\* ------------------------------------------------------------ the compactor
trigger_threshold ==
    IntTrunc(max_context_tokens * trigger_at_percent, 100)

target_tokens ==
    IntTrunc(max_context_tokens * 5, 10)

\* Faulty variants of line 87: the count compared against the target budget,
\* compared with <= , and an empty window never compacted.
BelowThreshold_AgainstTarget(current_tokens) ==
    current_tokens < target_tokens

BelowThreshold_Inclusive(current_tokens) ==
    current_tokens <= trigger_threshold

BelowThreshold_SkipsEmpty(current_tokens) ==
    current_tokens < trigger_threshold \/ current_tokens = 0

\* line 87: the test that returns the messages unchanged
BelowThreshold(current_tokens) ==
    current_tokens < trigger_threshold

\* Faulty variant of line 106: "= +1" written for "+= 1", so that the counter is
\* overwritten instead of incremented.
CompactionsAfterUpdate_Assigned ==
    0 + 1

\* line 106
CompactionsAfterUpdate ==
    compactions_performed + 1

\* Faulty variant of line 107: "=" written for "+=", so that the saving of an
\* earlier compaction is lost.
TokensSavedAfterUpdate_Overwrite(current_tokens, new_tokens) ==
    current_tokens - new_tokens

\* line 107
TokensSavedAfterUpdate(current_tokens, new_tokens) ==
    tokens_saved + (current_tokens - new_tokens)

\* Faulty variant of lines 103-107: compactions_performed incremented before the
\* second count, so also when that count raises.
UpdateStats_BeforeCount(current_tokens, counted) ==
    /\ compactions_performed' = CompactionsAfterUpdate
    /\ tokens_saved' = IF counted = CounterFailure
                       THEN tokens_saved
                       ELSE TokensSavedAfterUpdate(current_tokens, counted)

\* Faulty variant of lines 103-107: a call that was suspended across a
\* reset_stats drops its update.
UpdateStats_DroppedAfterReset(current_tokens, counted) ==
    IF counted = CounterFailure \/ since_reset \in {"just", "resumed"}
    THEN UNCHANGED << compactions_performed, tokens_saved >>
    ELSE /\ compactions_performed' = CompactionsAfterUpdate
         /\ tokens_saved' = TokensSavedAfterUpdate(current_tokens, counted)

\* lines 103-107: the statistics update, reached when strategy.compact has
\* returned; `counted` is what the second count_messages gave.
UpdateStats(current_tokens, counted) ==
    IF counted = CounterFailure
    THEN UNCHANGED << compactions_performed, tokens_saved >>
    ELSE /\ compactions_performed' = CompactionsAfterUpdate
         /\ tokens_saved' = TokensSavedAfterUpdate(current_tokens, counted)

\* lines 109-114 in a compactor whose verbose flag is v: the report is
\* computed only when v holds, and divides by current_tokens.
ReportRaisesWith(v, current_tokens) ==
    v /\ current_tokens = 0

\* lines 109-114: the verbose report divides by current_tokens
ReportRaises(current_tokens) ==
    ReportRaisesWith(verbose, current_tokens)

\* A step of maybe_compact ends the quiet period after a reset_stats.
AfterCallStep ==
    IF since_reset = "never" THEN "never" ELSE "earlier"

\* The resumption of a suspended call ends the quiet period too, but begins
\* no call.
AfterResumeStep ==
    IF since_reset \in {"just", "resumed"} THEN "resumed" ELSE since_reset

Init ==
    /\ \E c \in Configurations :
         /\ max_context_tokens = c[1]
         /\ trigger_at_percent = c[2]
         /\ verbose = c[3]
    /\ compactions_performed = 0
    /\ tokens_saved = 0
    /\ calls = EmptyBag
    /\ outcome = NoOutcome
    /\ stats_returned = NoStats
    /\ calls_started = 0
    /\ calls_compacted = 0
    /\ since_reset = "never"
    /\ max_suspended = 0
    /\ contents = InitialContents
    /\ updates_since_reset = 0
    /\ saved_since_reset = 0

\* The frame of maybe_compact(messages) at the end of its synchronous part
\* (lines 78-101), in which count_messages gave `counted`.
EnterFrame(messages, counted) ==
    LET base == [NewFrame EXCEPT !.messages = messages]
    IN  IF counted = CounterFailure
        THEN [base EXCEPT !.pc = "raised", !.error = "CounterFailure"]
        ELSE IF BelowThreshold(counted)
        THEN [base EXCEPT !.pc = "returned", !.current_tokens = counted,
                          !.result = messages]
        ELSE [base EXCEPT !.pc = "awaiting", !.current_tokens = counted,
                          !.invocations =
                              << [messages |-> messages,
                                  target_tokens |-> target_tokens] >>]

\* Faulty variant of lines 68-116: the call holds a lock across the await, so no
\* call begins while another is suspended in the strategy.
maybe_compact_Serialized ==
    /\ calls = EmptyBag
    /\ calls_started < MaxCalls
    /\ \E messages \in MessageLists, counted \in CountResults :
         LET f == EnterFrame(messages, counted)
         IN  IF f.pc = "awaiting"
             THEN /\ calls' = calls (+) SetToBag({f})
                  /\ outcome' = NoOutcome
             ELSE /\ calls' = calls
                  /\ outcome' = f
    /\ max_suspended' =
           IF BagCardinality(calls') > max_suspended
           THEN BagCardinality(calls') ELSE max_suspended
    /\ calls_started' = calls_started + 1
    /\ stats_returned' = NoStats
    /\ since_reset' = AfterCallStep
    /\ UNCHANGED << config, compactions_performed, tokens_saved,
                    calls_compacted, contents, history >>

\* maybe_compact, lines 78-101: count, compare, and either return, raise, or
\* call strategy.compact and suspend.
maybe_compact ==
    /\ BagCardinality(calls) < NumTasks
    /\ calls_started < MaxCalls
    /\ \E messages \in MessageLists, counted \in CountResults :
         LET f == EnterFrame(messages, counted)
         IN  IF f.pc = "awaiting"
             THEN /\ calls' = calls (+) SetToBag({f})
                  /\ outcome' = NoOutcome
             ELSE /\ calls' = calls
                  /\ outcome' = f
    /\ max_suspended' =
           IF BagCardinality(calls') > max_suspended
           THEN BagCardinality(calls') ELSE max_suspended
    /\ calls_started' = calls_started + 1
    /\ stats_returned' = NoStats
    /\ since_reset' = AfterCallStep
    /\ UNCHANGED << config, compactions_performed, tokens_saved,
                    calls_compacted, contents, history >>

\* How the processor ends when the current loop is running (run_until_complete
\* raises RuntimeError) or when there is none (get_event_loop raises
\* RuntimeError): maybe_compact's body has not begun, so its frame binds
\* nothing.
ProcessorRaised(loop) ==
    [NewFrame EXCEPT !.pc = "raised",
                     !.error = IF loop = "running"
                               THEN "RuntimeError: loop is running"
                               ELSE "RuntimeError: no current loop"]

\* as_processor, lines 141-142: the processor called with `messages`.
\* asyncio.get_event_loop().run_until_complete(self.maybe_compact(messages))
\* runs the coroutine to completion on the current loop when that loop is not
\* running, and raises RuntimeError, before the coroutine's first step, when
\* the loop is already running or when the thread has no current loop.
processor ==
    \E loop \in LoopStates :
        /\ IF loop = "idle"
           THEN maybe_compact
           ELSE /\ outcome' = ProcessorRaised(loop)
                /\ stats_returned' = NoStats
                /\ since_reset' = AfterCallStep
                /\ UNCHANGED << config, compactions_performed, tokens_saved,
                                calls, calls_started, calls_compacted,
                                max_suspended, contents, history >>

\* Faulty variant of line 116: the call returns its input instead of the
\* strategy's output.
ResumeFrameWith_ReturnsInput(v, f, compacted, counted) ==
    LET g == [f EXCEPT !.compacted = compacted]
    IN  IF counted = CounterFailure
        THEN [g EXCEPT !.pc = "raised", !.error = "CounterFailure"]
        ELSE IF ReportRaisesWith(v, g.current_tokens)
        THEN [g EXCEPT !.pc = "raised", !.new_tokens = counted,
                       !.error = "ZeroDivisionError"]
        ELSE [g EXCEPT !.pc = "returned", !.new_tokens = counted,
                       !.result = f.messages]

\* The frame at the end of maybe_compact, in a compactor whose verbose flag
\* is v, when the call suspended in frame f resumes: strategy.compact returned
\* `compacted` and the second count_messages gave `counted`.
ResumeFrameWith(v, f, compacted, counted) ==
    LET g == [f EXCEPT !.compacted = compacted]
    IN  IF counted = CounterFailure
        THEN [g EXCEPT !.pc = "raised", !.error = "CounterFailure"]
        ELSE IF ReportRaisesWith(v, g.current_tokens)
        THEN [g EXCEPT !.pc = "raised", !.new_tokens = counted,
                       !.error = "ZeroDivisionError"]
        ELSE [g EXCEPT !.pc = "returned", !.new_tokens = counted,
                       !.result = compacted]

\* Faulty variant of lines 97-116: the strategy is invoked again when its output
\* still counts at or above the threshold.
ResumeFrame_Retry(f, compacted, counted) ==
    LET g == [f EXCEPT !.compacted = compacted]
    IN  IF counted = CounterFailure
        THEN [g EXCEPT !.pc = "raised", !.error = "CounterFailure"]
        ELSE IF ~BelowThreshold(counted)
        THEN [g EXCEPT !.pc = "returned", !.new_tokens = counted,
                       !.result = compacted,
                       !.invocations =
                           Append(@, [messages |-> compacted,
                                      target_tokens |-> target_tokens])]
        ELSE [g EXCEPT !.pc = "returned", !.new_tokens = counted,
                       !.result = compacted]

\* The same frame in this compactor.
ResumeFrame(f, compacted, counted) ==
    ResumeFrameWith(verbose, f, compacted, counted)

\* maybe_compact, lines 97-116: strategy.compact returned to the call
\* suspended in frame f.
strategy_returns(f) ==
    /\ BagIn(f, calls)
    /\ \E compacted \in MessageLists, counted \in CountResults :
         LET g == ResumeFrame(f, compacted, counted)
         IN  /\ outcome' = g
             /\ calls_compacted' =
                    IF g.pc = "returned" THEN calls_compacted + 1
                                         ELSE calls_compacted
             /\ UpdateStats(f.current_tokens, counted)
             /\ IF counted = CounterFailure
                THEN UNCHANGED history
                ELSE /\ updates_since_reset' = updates_since_reset + 1
                     /\ saved_since_reset' =
                            saved_since_reset + f.current_tokens - counted
    /\ calls' = calls (-) SetToBag({f})
    /\ stats_returned' = NoStats
    /\ since_reset' = AfterResumeStep
    /\ UNCHANGED << config, calls_started, max_suspended, contents >>

\* Faulty variant of line 97: the failed compaction is counted all the same.
strategy_raises_Counted(f) ==
    /\ BagIn(f, calls)
    /\ \E e \in {"StrategyFailure", "CancelledError"} :
         outcome' = [f EXCEPT !.pc = "raised", !.error = e]
    /\ calls' = calls (-) SetToBag({f})
    /\ compactions_performed' = CompactionsAfterUpdate
    /\ stats_returned' = NoStats
    /\ since_reset' = AfterResumeStep
    /\ UNCHANGED << config, tokens_saved, calls_started, calls_compacted,
                    max_suspended, contents, history >>

\* maybe_compact, line 97: the await raises in the call suspended in frame f,
\* because strategy.compact raised or because the task was cancelled.
strategy_raises(f) ==
    /\ BagIn(f, calls)
    /\ \E e \in {"StrategyFailure", "CancelledError"} :
         outcome' = [f EXCEPT !.pc = "raised", !.error = e]
    /\ calls' = calls (-) SetToBag({f})
    /\ stats_returned' = NoStats
    /\ since_reset' = AfterResumeStep
    /\ UNCHANGED << config, compactions_performed, tokens_saved,
                    calls_started, calls_compacted, max_suspended, contents,
                    history >>

\* Faulty variant of lines 118-121: tokens_saved is not reset.
reset_stats_KeepsTokens ==
    /\ compactions_performed' = 0
    /\ since_reset' = "just"
    /\ outcome' = NoOutcome
    /\ stats_returned' = NoStats
    /\ updates_since_reset' = 0
    /\ saved_since_reset' = 0
    /\ UNCHANGED << config, tokens_saved, calls, calls_started,
                    calls_compacted, max_suspended, contents >>

\* reset_stats, lines 118-121
reset_stats ==
    /\ compactions_performed' = 0
    /\ tokens_saved' = 0
    /\ since_reset' = "just"
    /\ outcome' = NoOutcome
    /\ stats_returned' = NoStats
    /\ updates_since_reset' = 0
    /\ saved_since_reset' = 0
    /\ UNCHANGED << config, calls, calls_started, calls_compacted,
                    max_suspended, contents >>

\* get_stats, lines 123-130
StatsDict ==
    [ compactions_performed |-> compactions_performed,
      tokens_saved |-> tokens_saved,
      max_context_tokens |-> max_context_tokens,
      trigger_threshold |-> trigger_threshold ]

get_stats ==
    /\ stats_returned' = StatsDict
    /\ outcome' = NoOutcome
    /\ UNCHANGED << config, compactions_performed, tokens_saved, calls,
                    calls_started, calls_compacted, since_reset,
                    max_suspended, contents, history >>

Next ==
    \/ maybe_compact
    \/ processor
    \/ \E f \in BagToSet(calls) : strategy_returns(f)
    \/ \E f \in BagToSet(calls) : strategy_raises(f)
    \/ reset_stats
    \/ get_stats

Spec == Init /\ [][Next]_vars

\* The event loop resumes a suspended call once its strategy.compact has
\* returned or raised, and every strategy invocation eventually does one or
\* the other.
FairSpec ==
    Spec /\ WF_vars(\E f \in BagToSet(calls) :
                        strategy_returns(f) \/ strategy_raises(f))

\* ------------------------------------------------------------------ claims
\* What the specification calls a valid configuration: a positive window and
\* a trigger ratio in (0, 1].
ValidConfiguration ==
    /\ max_context_tokens > 0
    /\ trigger_at_percent > 0
    /\ trigger_at_percent <= 100

\* floor(max_context_tokens * trigger_at_percent) and floor(max * 0.5)
FloorThreshold == (max_context_tokens * trigger_at_percent) \div 100
FloorTarget == (max_context_tokens * 5) \div 10

\* Frame f is the frame of the maybe_compact call begun in this step: the call
\* either ended in the step (f is its outcome) or suspended (f joined calls).
Begun(f) ==
    /\ calls_started' = calls_started + 1
    /\ \/ outcome' # NoOutcome /\ f = outcome'
       \/ outcome' = NoOutcome /\ CopiesIn(f, calls') = CopiesIn(f, calls) + 1

FramesAfter == {outcome'} \cup BagToSet(calls')

\* Frame f is how the call that was suspended in one of the frames of calls
\* ended in this step.
Resumed(f) ==
    /\ f = outcome'
    /\ f # NoOutcome
    /\ BagCardinality(calls') = BagCardinality(calls) - 1

StatsUnchanged == UNCHANGED << compactions_performed, tokens_saved >>

\* The frame passed its input through: returned the input list itself,
\* without invoking the strategy.
PassedThrough(f) ==
    /\ f.pc = "returned"
    /\ f.result = f.messages
    /\ f.invocations = << >>

\* The frame invoked the strategy exactly once, on its input, with `target`.
InvokedOnce(f, target) ==
    f.invocations = << [messages |-> f.messages, target_tokens |-> target] >>

\* C1: a call whose first count is strictly below floor(max * trigger) returns
\* the input list itself, invokes no strategy and changes neither statistic;
\* this holds of every call, also of a repeated one.
C1_UnderThresholdPassesThrough ==
    [][\A f \in FramesAfter :
          (Begun(f) /\ f.current_tokens # NoCount
                    /\ f.current_tokens < FloorThreshold)
          => (PassedThrough(f) /\ StatsUnchanged)]_vars

C1_Witness ==
    /\ calls_started = MaxCalls
    /\ PassedThrough(outcome)
    /\ outcome.current_tokens < FloorThreshold
    /\ FloorThreshold > 0
    /\ compactions_performed = 0
    /\ tokens_saved = 0

\* C2 (as claimed, for valid configurations): a call whose first count is at
\* or above the threshold invokes the strategy exactly once with target
\* floor(max * 0.5); and when the strategy returns and the second count
\* succeeds, the call adds 1 to compactions_performed and (count_before -
\* count_after) to tokens_saved and returns the strategy's output.
C2_CompactionAccounted ==
    [][ValidConfiguration =>
        \A f \in FramesAfter :
          /\ (Begun(f) /\ f.current_tokens # NoCount
                       /\ f.current_tokens >= FloorThreshold)
             => (f.pc = "awaiting" /\ InvokedOnce(f, FloorTarget))
          /\ (Resumed(f) /\ f.new_tokens # NoCount)
             => /\ InvokedOnce(f, FloorTarget)
                /\ compactions_performed' = compactions_performed + 1
                /\ tokens_saved' =
                       tokens_saved + (f.current_tokens - f.new_tokens)
                /\ f.pc = "returned"
                /\ f.result = f.compacted]_vars

\* C3 (as claimed): a call whose first count equals the threshold passes its
\* input through unchanged, and one whose count is threshold + 1 invokes the
\* strategy; with a window of 1000 and a trigger of 0.8, 800 does not trigger
\* and 801 triggers with target 500.
C3_EqualDoesNotTrigger ==
    [][\A f \in FramesAfter :
          /\ (Begun(f) /\ f.current_tokens = trigger_threshold)
             => (PassedThrough(f) /\ StatsUnchanged)
          /\ (Begun(f) /\ f.current_tokens = trigger_threshold + 1)
             => f.pc = "awaiting"
          /\ (Begun(f) /\ max_context_tokens = 1000
                       /\ trigger_at_percent = 80)
             => /\ f.current_tokens = 800 => PassedThrough(f)
                /\ f.current_tokens = 801 => InvokedOnce(f, 500)]_vars

\* C3 (amended): a call whose first count equals the threshold does trigger
\* compaction (the strategy is invoked and the call suspends in it), as does
\* one whose count is threshold + 1, while a count of threshold - 1 passes the
\* input through with no strategy call and no statistics change; with a window
\* of 1000 and a trigger of 0.8, 799 does not trigger and 800 and 801 trigger
\* with target 500.
C3_EqualTriggers ==
    [][\A f \in FramesAfter :
          /\ (Begun(f) /\ f.current_tokens # NoCount
                       /\ f.current_tokens = trigger_threshold - 1)
             => (PassedThrough(f) /\ StatsUnchanged)
          /\ (Begun(f) /\ f.current_tokens \in
                              {trigger_threshold, trigger_threshold + 1})
             => (f.pc = "awaiting" /\ Len(f.invocations) = 1)
          /\ (Begun(f) /\ max_context_tokens = 1000
                       /\ trigger_at_percent = 80)
             => /\ f.current_tokens = 799 => PassedThrough(f)
                /\ f.current_tokens \in {800, 801} => InvokedOnce(f, 500)]_vars

C3_Witness ==
    /\ max_context_tokens = 1000
    /\ trigger_at_percent = 80
    /\ \E f \in BagToSet(calls) :
         f.current_tokens = 800 /\ InvokedOnce(f, 500)

\* C4 (as claimed): no Controller with an invalid configuration exists, so
\* every maybe_compact call is made on a valid one.
C4_InvalidConfigurationRejected ==
    calls_started > 0 => ValidConfiguration

\* The call whose outcome is f began (it bound its messages) and ended because
\* count_messages raised: the first count was never obtained, or the strategy
\* returned and the second was not.
CounterRaised(f) ==
    /\ f # NoOutcome
    /\ f.messages # NoList
    /\ \/ f.current_tokens = NoCount
       \/ f.compacted # NoList /\ f.new_tokens = NoCount

\* C5: when count_messages raises, on the first or on the second count, the
\* call ends in that failure at once (no further strategy invocation) and
\* neither that step nor the call's earlier step changed the statistics.
C5_CounterFailurePropagates ==
    [][/\ CounterRaised(outcome')
          => /\ outcome'.pc = "raised"
             /\ outcome'.error = "CounterFailure"
             /\ outcome'.result = NoList
             /\ Len(outcome'.invocations) <= 1
             /\ StatsUnchanged
       /\ calls_started' # calls_started => StatsUnchanged]_vars

C5_Witness ==
    /\ CounterRaised(outcome)
    /\ outcome.compacted # NoList
    /\ compactions_performed = 0
    /\ tokens_saved = 0
    /\ calls_started > 0

\* C6: when the await of strategy.compact raises, by a strategy failure or a
\* cancellation, the call ends in that failure and has changed neither
\* statistic, in that step or before.
C6_StrategyFailureLeavesStats ==
    [][/\ outcome'.error \in {"StrategyFailure", "CancelledError"}
          => /\ outcome'.pc = "raised"
             /\ outcome'.result = NoList
             /\ StatsUnchanged
       /\ BagCardinality(calls') > BagCardinality(calls) => StatsUnchanged]_vars

C6_Witness ==
    /\ outcome.error = "CancelledError"
    /\ outcome.pc = "raised"
    /\ compactions_performed = 0
    /\ calls_started > 0

\* C7: with no reset_stats in between, when every call begun so far has
\* triggered compaction and none has failed, compactions_performed equals the
\* number of calls that have returned, whatever the order in which the
\* suspended calls resumed.
C7_NoLostIncrement ==
    (/\ since_reset = "never"
     /\ calls_compacted + BagCardinality(calls) = calls_started)
    => compactions_performed = calls_compacted

C7_Witness ==
    /\ since_reset = "never"
    /\ max_suspended >= 2
    /\ calls = EmptyBag
    /\ calls_compacted = calls_started
    /\ calls_started >= 2
    /\ compactions_performed = calls_started

\* C8: after reset_stats, and for as long as only get_stats runs, both
\* counters are 0 and get_stats reports them as 0; the step leaves
\* max_context_tokens, trigger_at_percent and trigger_threshold as they were.
C8_ResetZeroesStats ==
    [][since_reset' = "just"
       => /\ compactions_performed' = 0
          /\ tokens_saved' = 0
          /\ max_context_tokens' = max_context_tokens
          /\ trigger_at_percent' = trigger_at_percent
          /\ trigger_threshold' = trigger_threshold
          /\ stats_returned' # NoStats
             => /\ stats_returned'.compactions_performed = 0
                /\ stats_returned'.tokens_saved = 0
                /\ stats_returned'.max_context_tokens = max_context_tokens
                /\ stats_returned'.trigger_threshold = trigger_threshold]_vars

C8_Witness ==
    /\ since_reset = "just"
    /\ stats_returned # NoStats
    /\ stats_returned.compactions_performed = 0
    /\ calls_compacted > 0

\* C9: no call invokes the strategy more than once: a call is over once the
\* strategy has returned or a failure has occurred, also when the strategy's
\* output still counts at or above the threshold.
C9_StrategyInvokedAtMostOnce ==
    /\ \A f \in BagToSet(calls) \cup {outcome} : Len(f.invocations) <= 1
    /\ \A f \in BagToSet(calls) :
         f.pc = "awaiting" /\ f.compacted = NoList /\ f.error = "none"
    /\ outcome.pc \in {"none", "returned", "raised"}

C9_Witness ==
    /\ outcome.pc = "returned"
    /\ outcome.new_tokens # NoCount
    /\ outcome.new_tokens >= trigger_threshold
    /\ outcome.new_tokens >= outcome.current_tokens
    /\ Len(outcome.invocations) = 1
    /\ calls = EmptyBag

\* C10 (as claimed, for valid configurations): when the strategy's output
\* counts above the target, or at or above the count before, the call does not
\* fail: it returns that output, adds 1 to compactions_performed and
\* (count_before - count_after) to tokens_saved.
C10_OverTargetAccepted ==
    [][ValidConfiguration =>
        \A f \in FramesAfter :
          (/\ Resumed(f)
           /\ f.new_tokens # NoCount
           /\ f.new_tokens > FloorTarget \/ f.new_tokens >= f.current_tokens)
          => /\ f.pc = "returned"
             /\ f.result = f.compacted
             /\ compactions_performed' = compactions_performed + 1
             /\ tokens_saved' =
                    tokens_saved + (f.current_tokens - f.new_tokens)]_vars

\* What the second count_messages gave in the call that ended as frame f.
SecondCount(f) ==
    IF f.new_tokens = NoCount THEN CounterFailure ELSE f.new_tokens

\* Frame g is how the call that was suspended in frame f ended in this step,
\* after strategy.compact returned.
ResumedFrom(f, g) ==
    /\ g = outcome'
    /\ g.compacted # NoList
    /\ BagIn(f, calls)
    /\ calls' = calls (-) SetToBag({f})
    /\ f.messages = g.messages
    /\ f.current_tokens = g.current_tokens

\* C11 (as claimed): a call ends the same way whatever the verbose flag: for
\* the same suspended frame, the same strategy output and the same second
\* count, the compactor with verbose set and the one without end the call in
\* the same frame (same return value or same failure).  The statistics update
\* does not read the flag.
C11_VerboseNoInfluence ==
    [][\A f \in BagToSet(calls) :
          ResumedFrom(f, outcome')
          => \A v \in BOOLEAN :
               outcome' = ResumeFrameWith(v, f, outcome'.compacted,
                                          SecondCount(outcome'))]_vars

\* C12 (as claimed, for valid configurations): a call that ends in a failure
\* has changed neither counter in the step in which it fails.
C12_FailureLeavesNoPartialState ==
    [][(ValidConfiguration /\ outcome' # NoOutcome /\ outcome'.pc = "raised")
       => StatsUnchanged]_vars

\* C13: no step changes the messages held by a message list, so after any call
\* the input holds the same messages in the same order as before; a call that
\* returns without compacting returns the input list itself, and a call that
\* returns after the strategy returned returns exactly the strategy's output.
C13_InputNeverModified ==
    [][/\ contents' = contents
       /\ contents' = InitialContents
       /\ \A f \in FramesAfter :
            (Begun(f) /\ f.pc = "returned")
            => (f.result = f.messages /\ f.compacted = NoList)
       /\ \A f \in BagToSet(calls) :
            (ResumedFrom(f, outcome') /\ outcome'.pc = "returned")
            => outcome'.result = outcome'.compacted]_vars

C13_Witness ==
    /\ outcome.pc = "returned"
    /\ outcome.compacted # NoList
    /\ outcome.result = outcome.compacted
    /\ outcome.result # outcome.messages
    /\ contents[outcome.messages] = InitialContents[outcome.messages]

\* C14: under every interleaving of concurrent calls, in every state (each is
\* a point at which another call or get_stats can read the statistics) both
\* counters carry the same set of completed compactions: compactions_performed
\* is their number and tokens_saved the sum of their (count_before -
\* count_after), since the last reset_stats; so it is once all calls have
\* finished, and so get_stats reports them.
C14_ConcurrentUpdatesConsistent ==
    /\ compactions_performed = updates_since_reset
    /\ tokens_saved = saved_since_reset
    /\ stats_returned # NoStats
       => /\ stats_returned.compactions_performed = updates_since_reset
          /\ stats_returned.tokens_saved = saved_since_reset

C14_Witness ==
    /\ max_suspended >= 2
    /\ calls = EmptyBag
    /\ since_reset = "never"
    /\ calls_compacted = 2
    /\ compactions_performed = 2
    /\ tokens_saved >= 3
    /\ tokens_saved = saved_since_reset

\* C15: when trigger_threshold evaluates to 0, every call that obtains its
\* first count takes the compaction path, also when that count is 0: it
\* invokes the strategy once on its input and suspends in it, and when the
\* strategy returns and the output is counted the call adds 1 to
\* compactions_performed.
C15_ZeroThresholdAlwaysCompacts ==
    [][trigger_threshold = 0
       => /\ \A f \in FramesAfter :
               (Begun(f) /\ f.current_tokens # NoCount)
               => /\ f.pc = "awaiting"
                  /\ Len(f.invocations) = 1
                  /\ f.invocations[1].messages = f.messages
          /\ (Resumed(outcome') /\ outcome'.new_tokens # NoCount)
             => compactions_performed' = compactions_performed + 1]_vars

C15_Witness ==
    /\ trigger_threshold = 0
    /\ outcome.pc = "returned"
    /\ outcome.current_tokens = 0
    /\ Len(outcome.invocations) = 1
    /\ outcome.compacted # NoList
    /\ compactions_performed = calls_started
    /\ calls_started = MaxCalls

\* While the bounds of the model leave room for another call.
RoomForCall ==
    BagCardinality(calls) < NumTasks /\ calls_started < MaxCalls

\* C16: calls are not serialized.  While a call is suspended in the strategy,
\* reset_stats and get_stats can run, another call can begin and suspend in
\* the strategy too, another call can begin and return at once (where some
\* count lies below the threshold), and each suspended call can resume, by a
\* return or a failure of its strategy, whatever the other calls in flight;
\* and when every strategy invocation eventually returns or fails, the calls
\* in flight eventually all complete.
C16_CallsNotSerialized ==
    /\ [](calls # EmptyBag
          => /\ ENABLED reset_stats
             /\ ENABLED get_stats
             /\ RoomForCall
                => /\ ENABLED (maybe_compact /\ outcome' = NoOutcome)
                   /\ trigger_threshold > 0
                      => ENABLED (maybe_compact /\ outcome'.pc = "returned")
             /\ \A f \in BagToSet(calls) :
                  /\ ENABLED strategy_returns(f)
                  /\ ENABLED strategy_raises(f))
    /\ (calls # EmptyBag ~> calls = EmptyBag)

C16_Witness ==
    /\ calls # EmptyBag
    /\ max_suspended >= 2
    /\ outcome.pc = "returned"
    /\ outcome.compacted # NoList
    /\ compactions_performed = 1

\* C17 (as claimed): a call of the processor made inside a running event loop
\* fails as a caller error, with no count taken, no strategy invoked, no call
\* begun and no statistic changed; every other call of the processor is a
\* call of maybe_compact: same frame, same return value or failure, same
\* statistics.
C17_ProcessorMatchesMaybeCompact ==
    [][processor
       => IF outcome'.error = "RuntimeError: loop is running"
          THEN /\ outcome'.pc = "raised"
               /\ outcome'.current_tokens = NoCount
               /\ outcome'.invocations = << >>
               /\ calls' = calls
               /\ calls_started' = calls_started
               /\ StatsUnchanged
          ELSE maybe_compact]_vars

\* C18 (as claimed, for valid configurations): compactions_performed is never
\* negative; a step changes the counters only as reset_stats does (both to 0)
\* or as a call does that returns its compaction (compactions_performed by
\* exactly +1); unless reset, compactions_performed does not decrease; and
\* get_stats, a call that passes its input through and a call that fails
\* change neither counter.
C18_CountersChangeOnlyByCompaction ==
    [][ValidConfiguration
       => /\ compactions_performed >= 0
          /\ compactions_performed' >= 0
          /\ \/ StatsUnchanged
             \/ /\ since_reset' = "just"
                /\ compactions_performed' = 0
                /\ tokens_saved' = 0
             \/ /\ Resumed(outcome')
                /\ outcome'.pc = "returned"
                /\ outcome'.new_tokens # NoCount
                /\ compactions_performed' = compactions_performed + 1
          /\ since_reset' # "just"
             => compactions_performed' >= compactions_performed
          /\ stats_returned' # NoStats => StatsUnchanged
          /\ (outcome' # NoOutcome /\ PassedThrough(outcome'))
             => StatsUnchanged
          /\ (outcome' # NoOutcome /\ outcome'.pc = "raised")
             => StatsUnchanged]_vars

\* C19: a reset_stats issued while a call is suspended in the strategy does not
\* discard that call's accounting.  Whatever has happened since the call
\* suspended, when its strategy returns and the output is counted the call
\* adds 1 to compactions_performed and (count_before - count_after) to
\* tokens_saved, so compactions_performed always equals the number of
\* statistics updates run since the last reset_stats.
C19_ResetKeepsSuspendedAccounting ==
    /\ [](compactions_performed = updates_since_reset)
    /\ [][\A f \in BagToSet(calls) :
            (ResumedFrom(f, outcome') /\ outcome'.new_tokens # NoCount)
            => /\ compactions_performed' = compactions_performed + 1
               /\ tokens_saved' =
                      tokens_saved + (f.current_tokens - outcome'.new_tokens)
               /\ updates_since_reset' = updates_since_reset + 1]_vars

\* The counters are non-zero after a reset_stats although no call has begun
\* since: the call that resumed was suspended when the reset ran.
C19_Witness ==
    /\ since_reset = "resumed"
    /\ outcome.pc = "returned"
    /\ outcome.compacted # NoList
    /\ compactions_performed = 1
    /\ tokens_saved # 0
    /\ calls_started = 1

====
